---- MODULE Spec2Model ----
(***************************************************************************)
(* Model of src/main.py, the Didi 15m scanner for Binance Futures.         *)
(*                                                                         *)
(* The program is one main thread (main -> scanner_loop), one daemon       *)
(* thread (watchdog) and one signal handler (handle_shutdown).  The state  *)
(* is the module globals SHUTDOWN, LAST_EXECUTION and LAST_SIGNAL plus the *)
(* position of each thread.  Network calls are the inputs: every call      *)
(* draws its outcome from a small set.                                     *)
(*                                                                         *)
(* Time is counted in tenths of a second (the smallest delay of the        *)
(* program is time.sleep(0.1)), so a delay of n seconds is written 10*n.   *)
(* The clock is kept relative: sinceExec is time.time() - LAST_EXECUTION,  *)
(* saturating at MaxElapsed.  It advances in quanta of TickStep, longer    *)
(* than any sleep of the program, so any number of sleeps and calls may    *)
(* end within one quantum and any number of quanta may pass during one     *)
(* blocking call: every interleaving of the clock with the threads is      *)
(* covered.  A sleeping thread records the delay it asked for.             *)
(*                                                                         *)
(* check_signal decides on the end of the table: the last 20 closes, from  *)
(* which the SMAs and the Bollinger widths are computed, the previous high *)
(* and low, and the last two values of ADX; a table carries those as a     *)
(* snapshot.  Spec runs the scanner on a few snapshots; SignalSpec         *)
(* evaluates check_signal alone on every snapshot of a grid of closes.     *)
(***************************************************************************)
EXTENDS Integers, Sequences, FiniteSets

VARIABLES
    pc,             \* position of the main thread
    SHUTDOWN,       \* global SHUTDOWN (line 75)
    LAST_SIGNAL,    \* global LAST_SIGNAL (line 323): symbol -> "NONE" (no entry) | side
    sinceExec,      \* time.time() - LAST_EXECUTION
    idx,            \* position of `for symbol in SYMBOLS` (1-based)
    attempt,        \* loop variable of fetch_klines' `for attempt in range(...)`
    mainSleep,      \* delay of the time.sleep the main thread is in (0: none)
    wdPc,           \* position of the watchdog thread
    wdSleep,        \* delay of the time.sleep the watchdog thread is in (0: none)
    stallReported,  \* whether the latest watchdog check logged a stall
    attempted,      \* symbols whose processing has begun in the current iteration
    waits,          \* delays slept by the current fetch_klines call
    ev,             \* what the processing of the symbol just finished did
    prevRet,        \* symbol -> what check_signal returned in its previous cycle
    runAlerts,      \* symbol -> alerts sent in the current run of equal returns
    lastAlert,      \* symbol -> side of the most recent alert dispatched
    cycleBegunShut, \* value of SHUTDOWN read by the `while` test that began the cycle
    tgCalls,        \* kinds of message handed to send_telegram so far
    httpCalls,      \* session.get calls made by the current fetch_klines call
    cycleErrors,    \* LOGGER.error calls of scanner_loop in the current iteration
    lastProbe,      \* outcome of the probe of the current iteration ("none": not yet)
    lastFetch,      \* outcome of the latest attempt of the current fetch_klines call
    sending,        \* the alert whose session.post is in flight
    win,            \* the table check_signal is evaluated on as a function
    verdict         \* what that evaluation found

vars == <<pc, SHUTDOWN, LAST_SIGNAL, sinceExec, idx, attempt, mainSleep, wdPc,
          wdSleep, stallReported, attempted, waits, ev, prevRet, runAlerts,
          lastAlert, cycleBegunShut, tgCalls, httpCalls, cycleErrors, lastProbe,
          lastFetch, sending, win, verdict>>

---------------------------------------------------------------------------
(* Configuration and program constants. *)

\* SYMBOLS: the list read from the environment variable BA.
SYMBOLS == <<"BTCUSDT", "ETHUSDT">>

SymbolSet == {SYMBOLS[k] : k \in 1..Len(SYMBOLS)}

HTTP_RETRIES == 3

\* check_signal needs at least this many complete rows.
MIN_ROWS == 50

\* ADX_MIN (line 40), in ADX points.
ADX_MIN == 15

\* BB_WIDTH_MIN = 0.015 (line 41), in thousandths.
BB_WIDTH_MIN == 15

\* 1 / 0.0005, the factor of min_slope (line 266) and of the separation test
\* (line 276).
SLOPE_INV == 2000

\* Delays, in tenths of a second.
STALL_THRESHOLD == 6000

WATCHDOG_PERIOD == 600

CYCLE_SLEEP == 300

PROBE_COOLDOWN == 300

SYMBOL_PAUSE == 1

BACKOFF_UNIT == 20

\* Bounds of the model.
TickStep == 3000

MaxElapsed == 6600

RunAlertsCap == 2

Sides == {"LONG", "SHORT"}

Min(a, b) == IF a < b THEN a ELSE b

---------------------------------------------------------------------------
(* Inputs: what the outside world answers. *)

\* session.get(INTERNET_TEST_URL): status 200, another status, or an exception.
ProbeOutcomes == {"status200", "statusOther", "exception"}

\* One pass through the try body of fetch_klines: the table is returned, a
\* requests RequestException is raised, or another exception is raised.
FetchOutcomes == {"ok", "RequestException", "OtherException"}

\* session.post to Telegram: delivered, an HTTP error status, any other failure.
TelegramOutcomes == {"ok", "HTTPError", "Exception"}

\* Number of rows of the klines response.
RowCounts == {0, 1, MIN_ROWS, MIN_ROWS + 1}

\* Number of rows of a response of n rows that hold a missing value: a row
\* is dropped by dropna only in a response long enough without it.
Incomplete(n) == IF n > MIN_ROWS THEN {0, 1} ELSE {0}

\* np.nan (line 212): the value a division by zero leaves in ADX.  Every
\* comparison with it is false.
NaN == -1

\* The closes a snapshot lists, oldest first: the window of the slowest
\* average, sma(close, 20) (line 235).
BARS == 20

\* bollinger_width(series, period=8, std=2) (line 217).
BB_PERIOD == 8

BB_STD == 2

\* What check_signal reads off the end of the table (lines 231-277): the last
\* 20 closes, from which it computes the averages and the Bollinger widths,
\* the high and the low of the bar before the last, and the last two values
\* of ADX, which the highs and lows of the earlier bars determine.  Prices
\* are integers of one fixed-point unit, ADX is in points.
\* bar is the previous high and the previous low; adx is the value now and
\* the value before.  The code computes in doubles: where the slope or the
\* separation is exactly at its threshold of 0.05 % of the close, the
\* rounding of the doubles decides the comparison, and ties says which way.
Snapshot(closes, bar, adx, ties) ==
    [closes |-> closes, high2 |-> bar[1], low2 |-> bar[2],
     adx_now |-> adx[1], adx_prev |-> adx[2],
     slope_tie |-> ties[1], sep_tie |-> ties[2]]

\* The first 16 closes of a snapshot: twelve at one level, then four.
Base(level, mid) == [k \in 1..16 |-> IF k <= 12 THEN level ELSE mid[k - 12]]

\* A market at rest.
FlatBase == Base(2000, <<2000, 2000, 2000, 2000>>)

\* A swing up and down around a level.
SwingBase == Base(1990, <<2000, 2000, 1980, 1980>>)

\* A dip followed by a spike.
WhipBase == Base(2000, <<1980, 1990, 2020, 2000>>)

\* A narrow range: the Bollinger width stays under its floor.
QuietBase == Base(1990, <<1980, 1990, 1995, 1980>>)

\* A spike that leaves the Bollinger window: the width shrinks.
FadingBase == Base(1990, <<1980, 1990, 2020, 1985>>)

Bases == {FlatBase, SwingBase, WhipBase, QuietBase, FadingBase}

\* After a rest a dip, then a jump: the fast average crosses up through the
\* slow one on the last bar, both rise, the bands widen, the close breaks
\* the previous high.
LongSnap ==
    Snapshot(FlatBase \o <<2001, 2000, 1995, 2030>>, <<1996, 1994>>,
             <<16, 16>>, <<FALSE, FALSE>>)

\* The mirror image: a cross down and a close below the previous low.
ShortSnap ==
    Snapshot(FlatBase \o <<2001, 2000, 2005, 1970>>, <<2006, 2004>>,
             <<16, 16>>, <<FALSE, FALSE>>)

\* The long picture with the close stopping at the previous high.
NoBreakoutSnap ==
    Snapshot(FlatBase \o <<2001, 2000, 1995, 2030>>, <<2030, 1994>>,
             <<16, 16>>, <<FALSE, FALSE>>)

\* The slope of the fast average and its distance to the slow one are both
\* exactly 0.05 % of the close, and the doubles round both above it.
TieSnap ==
    Snapshot(SwingBase \o <<1997, 1990, 1989, 2000>>, <<1990, 1988>>,
             <<16, 16>>, <<TRUE, TRUE>>)

\* The long picture with ADX under its floor.
WeakTrendSnap ==
    Snapshot(FlatBase \o <<2001, 2000, 1995, 2030>>, <<1996, 1994>>,
             <<14, 14>>, <<FALSE, FALSE>>)

\* The snapshots the klines responses of the scanner produce.
Snapshots == {LongSnap, ShortSnap, NoBreakoutSnap, WeakTrendSnap, TieSnap}

\* The last two values of ADX: undefined, under the floor, falling, level,
\* rising.
AdxPairs == {<<NaN, 15>>, <<14, 14>>, <<15, 16>>, <<16, 16>>, <<16, 15>>}

\* The close sequences of the grid: a base, then the last four closes.
CloseSeqs ==
    {base \o <<c17, c18, c19, c20>> :
        base \in Bases, c17 \in {1996, 1997, 2001}, c18 \in {1990, 2000},
        c19 \in {1989, 1995, 2005}, c20 \in {1970, 2000, 2001, 2030}}

\* The gaps of the previous high above, and of the previous low below, the
\* close of their own bar.
BarGaps == {1, 11, 35}

---------------------------------------------------------------------------
(* Pure parts of the program. *)

InternetOkAnyStatus(outcome) == outcome # "exception"

\* internet_ok (lines 89-100): True only on status 200, False on any other
\* status and on any exception.
internet_ok(outcome) == outcome = "status200"

LoopForever(shutdown) == TRUE

\* `while not SHUTDOWN` (line 330).
LoopCond(shutdown) == ~shutdown

RetryAny(outcome) == outcome # "ok"

\* `except requests.exceptions.RequestException` (line 182).
Retryable(outcome) == outcome = "RequestException"

MoreAttemptsInclusive(a) == a <= HTTP_RETRIES

\* `for attempt in range(HTTP_RETRIES)` (line 159): is there an attempt a?
MoreAttempts(a) == a < HTTP_RETRIES

\* time.sleep(2 * (attempt + 1)) (line 185).
Backoff(a) == BACKOFF_UNIT * (a + 1)

KeepAll(n) == n

\* df.iloc[:-1] (line 180) on a table of n rows: the position of the last
\* row kept.
DropLast(n) == IF n > 0 THEN n - 1 ELSE 0

\* The table fetch_klines returns for a response of n rows: rows first..last
\* of the response, in order, inc of them with a missing value, and the
\* snapshot snap at its end.
Table(n, inc, snap) ==
    [first |-> 1, last |-> DropLast(n), incomplete |-> Min(inc, DropLast(n)),
     snap |-> snap]

\* len(df).
Rows(df) == df.last - df.first + 1

\* `df is None or df.empty` (line 340).
df_empty(df) == Rows(df) = 0

\* len(df.dropna()) (line 227).
Complete(df) == Rows(df) - df.incomplete

\* pd.isna.
IsNa(x) == x = NaN

\* a < b on floats: false when either is NaN.
Lt(a, b) == ~IsNa(a) /\ ~IsNa(b) /\ a < b

Abs(x) == IF x < 0 THEN -x ELSE x

\* close.iloc[-k].
Close(w, k) == w.closes[BARS + 1 - k]

\* The sums of the closes of the 3, 8 and 20 bars that end at position e of
\* the sequence c: the windows of rolling(3), rolling(8) and rolling(20).
Sum3(c, e) == c[e] + c[e - 1] + c[e - 2]

Sum8(c, e) == c[e] + c[e - 1] + c[e - 2] + c[e - 3] + c[e - 4] + c[e - 5] + c[e - 6] + c[e - 7]

Sum20(c, e) == Sum8(c, e) + Sum8(c, e - 8) + Sum3(c, e - 16) + c[e - 19]

\* The sum of the squares of the closes of the 8 bars that end at e.
SumSq8(c, e) == c[e] * c[e] + c[e - 1] * c[e - 1] + c[e - 2] * c[e - 2] + c[e - 3] * c[e - 3] + c[e - 4] * c[e - 4] + c[e - 5] * c[e - 5] + c[e - 6] * c[e - 6] + c[e - 7] * c[e - 7]

\* The sum of the window of series.rolling(p) that ends at iloc[-k]: p times
\* sma(close, p).iloc[-k] (lines 192-193), for the periods the code uses.
RollingSum(w, p, k) == CASE p = 3 -> Sum3(w.closes, BARS + 1 - k) [] p = 8 -> Sum8(w.closes, BARS + 1 - k) [] p = 20 -> Sum20(w.closes, BARS + 1 - k)

\* The sum of the squares of the Bollinger window that ends at iloc[-k].
RollingSumSq(w, k) == SumSq8(w.closes, BARS + 1 - k)

\* p * sum(x^2) - sum(x)^2 over the Bollinger window ending at iloc[-k]:
\* p * (p - 1) times the square of series.rolling(period).std() (line 219).
Spread(w, k) == BB_PERIOD * RollingSumSq(w, k) - RollingSum(w, BB_PERIOD, k) * RollingSum(w, BB_PERIOD, k)

\* The Bollinger width that is NaN: ma.replace(0, np.nan) (line 220) on a
\* zero mean.
BbwNaN == [num |-> 0, den |-> 0]

\* bollinger_width (lines 217-220) at iloc[-k], by its square: the fraction
\* spread / sum^2, which 4 * std^2 * p / (p - 1) times is the square of
\* 2 * std * sd / ma.
bollinger_width(w, k) == IF RollingSum(w, BB_PERIOD, k) = 0 THEN BbwNaN ELSE [num |-> Spread(w, k), den |-> RollingSum(w, BB_PERIOD, k) * RollingSum(w, BB_PERIOD, k)]

\* The values check_signal computes from the table before it compares them
\* (lines 233-267): each average as the sum of its window, that is 3, 8 and
\* 20 times s3, s8 and s20, and each width as bollinger_width gives it.
Readings(w) ==
    [s3_3 |-> RollingSum(w, 3, 3), s3_2 |-> RollingSum(w, 3, 2),
     s3_1 |-> RollingSum(w, 3, 1),
     s8_3 |-> RollingSum(w, 8, 3), s8_2 |-> RollingSum(w, 8, 2),
     s8_1 |-> RollingSum(w, 8, 1), s20_1 |-> RollingSum(w, 20, 1),
     price |-> Close(w, 1), high2 |-> w.high2, low2 |-> w.low2,
     adx_now |-> w.adx_now, adx_prev |-> w.adx_prev,
     bbw_now |-> bollinger_width(w, 1), bbw_prev |-> bollinger_width(w, 2),
     slope_tie |-> w.slope_tie, sep_tie |-> w.sep_tie]

\* The ADX gate (lines 245-252).
AdxGate(r) ==
    /\ ~(IsNa(r.adx_now) \/ Lt(r.adx_now, ADX_MIN))
    /\ ~Lt(r.adx_now, r.adx_prev)

RECURSIVE FracLt(_, _, _, _)
\* a / b < c / d for a, c >= 0 and b, d > 0, by continued fractions: the
\* products a * d and b * c need not be formed.
FracLt(a, b, c, d) == IF a \div b # c \div d THEN a \div b < c \div d ELSE IF c % d = 0 THEN FALSE ELSE IF a % b = 0 THEN TRUE ELSE FracLt(d, c % d, b, a % b)

\* pd.isna on a width.
BbwIsNa(x) == x.den = 0

\* BB_WIDTH_MIN on the scale of bollinger_width.
BbwMin == [num |-> (BB_PERIOD - 1) * BB_WIDTH_MIN * BB_WIDTH_MIN, den |-> 4 * BB_STD * BB_STD * BB_PERIOD * 1000000]

\* x < y on two widths: false when either is NaN.
BbwLt(x, y) == ~BbwIsNa(x) /\ ~BbwIsNa(y) /\ FracLt(x.num, x.den, y.num, y.den)

\* The Bollinger width gate (lines 254-262).
BbwGate(r) ==
    /\ ~(BbwIsNa(r.bbw_now) \/ BbwLt(r.bbw_now, BbwMin))
    /\ ~BbwLt(r.bbw_now, r.bbw_prev)

\* a / p < b / q: two averages compared by the sums a and b of their
\* windows of p and q bars.
MeanLt(a, p, b, q) == q * a < p * b

\* slope3 (line 264), three times.
slope3(r) == r.s3_1 - r.s3_2

\* slope8 (line 265), eight times.
slope8(r) == r.s8_1 - r.s8_2

\* a > b as the doubles decide it, a and b being the exact values: the exact
\* order off a tie, the side the rounding took on a tie.
GtFloat(a, b, tie) == a > b \/ (a = b /\ tie)

\* x / 3 > min_slope with min_slope = close * 0.0005 (lines 266, 275, 288),
\* x being three times the slope; the exact values are compared as
\* x * 2000 and 3 * close.
AboveMinSlope(x, r) == GtFloat(x * SLOPE_INV, 3 * r.price, r.slope_tie)

\* Lines 269-272.
cruzou_long(r) ==
    \/ MeanLt(r.s3_3, 3, r.s8_3, 8) /\ MeanLt(r.s8_2, 8, r.s3_2, 3)
    \/ MeanLt(r.s3_2, 3, r.s8_2, 8) /\ MeanLt(r.s8_1, 8, r.s3_1, 3)

\* Line 274.
alinhamento_long(r) ==
    MeanLt(r.s8_1, 8, r.s3_1, 3) /\ MeanLt(r.s20_1, 20, r.s8_1, 8)

\* Line 275.
inclinacao_long(r) == AboveMinSlope(slope3(r), r) /\ slope8(r) > 0

\* 24 * abs(s3_1 - s8_1).
Separation(r) == Abs(8 * r.s3_1 - 3 * r.s8_1)

\* abs(s3_1 - s8_1) / price > 0.0005 (lines 276 and 289).
separacao_ok(r) == GtFloat(Separation(r) * SLOPE_INV, 24 * r.price, r.sep_tie)

NoBreakoutTest(r) == TRUE

\* Line 277.
rompimento_long(r) == r.price > r.high2

\* Lines 282-285.
cruzou_short(r) ==
    \/ MeanLt(r.s8_3, 8, r.s3_3, 3) /\ MeanLt(r.s3_2, 3, r.s8_2, 8)
    \/ MeanLt(r.s8_2, 8, r.s3_2, 3) /\ MeanLt(r.s3_1, 3, r.s8_1, 8)

\* Line 287.
alinhamento_short(r) ==
    MeanLt(r.s3_1, 3, r.s8_1, 8) /\ MeanLt(r.s8_1, 8, r.s20_1, 20)

\* Line 288.
inclinacao_short(r) == AboveMinSlope(-slope3(r), r) /\ slope8(r) < 0

\* Line 290.
rompimento_short(r) == r.price < r.low2

\* The comparisons of lines 254-290 that carry no tie flag are off a tie on
\* these readings: no two averages compared are equal, the slow average
\* moved, the width changed and is not at its floor.
OffTies(r) ==
    /\ 8 * r.s3_3 # 3 * r.s8_3
    /\ 8 * r.s3_2 # 3 * r.s8_2
    /\ 8 * r.s3_1 # 3 * r.s8_1
    /\ 20 * r.s8_1 # 8 * r.s20_1
    /\ slope8(r) # 0
    /\ BbwLt(r.bbw_now, r.bbw_prev) \/ BbwLt(r.bbw_prev, r.bbw_now)
    /\ BbwLt(r.bbw_now, BbwMin) \/ BbwLt(BbwMin, r.bbw_now)

\* The close sequences of the grid on which only the flagged comparisons
\* can be at a tie.
SteadySeqs == {c \in CloseSeqs : OffTies(Readings(Snapshot(c, <<c[BARS - 1], c[BARS - 1]>>, <<NaN, NaN>>, <<FALSE, FALSE>>)))}

\* The snapshots check_signal is evaluated on as a function: a close
\* sequence, the previous high above and the previous low below the close
\* of their own bar, the last two values of ADX, the sides the ties take.
Windows ==
    {Snapshot(c, <<c[BARS - 1] + up, c[BARS - 1] - down>>, adx,
              <<slope_tie, sep_tie>>) :
        c \in SteadySeqs, up \in BarGaps, down \in BarGaps, adx \in AdxPairs,
        slope_tie \in BOOLEAN, sep_tie \in BOOLEAN}

\* The condition of `return "LONG"` (lines 279-280).
LongCond(r) ==
    /\ cruzou_long(r)
    /\ alinhamento_long(r)
    /\ inclinacao_long(r)
    /\ separacao_ok(r)
    /\ rompimento_long(r)

ShortCondHalfMirrored(r) ==
    /\ cruzou_short(r)
    /\ alinhamento_long(r)
    /\ inclinacao_long(r)
    /\ separacao_ok(r)
    /\ rompimento_long(r)

\* The condition of `return "SHORT"` (lines 292-293).
ShortCond(r) ==
    /\ cruzou_short(r)
    /\ alinhamento_short(r)
    /\ inclinacao_short(r)
    /\ separacao_ok(r)
    /\ rompimento_short(r)

EnoughRowsLoose(df) == Complete(df) >= MIN_ROWS - 1

\* `if len(df) < 50: return None` (lines 228-229), negated.
EnoughRows(df) == Complete(df) >= MIN_ROWS

\* check_signal (lines 225-295): no signal on fewer than 50 complete rows or
\* behind a closed gate, else LONG if its condition holds, else SHORT if its
\* condition holds, else no signal.
check_signal(df) ==
    LET r == Readings(df.snap)
    IN
    IF ~EnoughRows(df) THEN "NONE"
    ELSE IF ~AdxGate(r) THEN "NONE"
    ELSE IF ~BbwGate(r) THEN "NONE"
    ELSE IF LongCond(r) THEN "LONG"
    ELSE IF ShortCond(r) THEN "SHORT"
    ELSE "NONE"

AlwaysNewSignal(last, sig) == TRUE

\* `last == sig` -> continue (lines 347-349): is sig to be alerted?
IsNewSignal(last, sig) == last # sig

MemoryCleared(last) == "NONE"

\* `if not sig: continue` (lines 344-345) leaves LAST_SIGNAL as it is.
MemoryAfterNoSignal(last) == last

MemoryKept(last, sig) == last

\* `LAST_SIGNAL[symbol] = sig` after send_alert (lines 352-354).
MemoryAfterAlert(last, sig) == sig

StalledInclusive(elapsed) == elapsed >= STALL_THRESHOLD

\* `time.time() - LAST_EXECUTION > 600` (line 316).
Stalled(elapsed) == elapsed > STALL_THRESHOLD

\* send_telegram (lines 129-148) catches every failure: it reports delivery
\* and never raises.
send_telegram(outcome) == outcome = "ok"

RaisesOnFailure(outcome) == outcome # "ok"

\* The two except clauses of send_telegram (lines 144-148): HTTPError and
\* Exception are both caught and logged, so no outcome makes the call raise.
send_telegram_raises(outcome) == FALSE

ElapsedResetOnFailedProbe(ok, elapsed) == IF ok THEN elapsed ELSE 0

\* What an iteration's probe does to time.time() - LAST_EXECUTION: nothing,
\* lines 332-334 do not assign LAST_EXECUTION.
ElapsedAfterProbe(ok, elapsed) == elapsed

AfterProbeGiveUp(ok) == IF ok THEN "fetch" ELSE "returned"

\* Where scanner_loop goes after the probe (lines 332-336).
AfterProbe(ok) == IF ok THEN "fetch" ELSE "cooldown"

CaughtUnlessRuntimeError(result) == result # "RuntimeError"

CaughtOnlyRuntimeError(result) == result = "RuntimeError"

\* `except Exception` (line 357) catches whatever the try body raises.
Caught(result) == TRUE

\* The delay slept after the try statement of one symbol (line 360): every
\* `continue` of the try body (lines 341, 345, 349) goes to the next symbol
\* past time.sleep(0.1), which runs after an alert and after the handler.
PauseAfter(result, alert) ==
    IF alert \/ result \notin {"df", "empty"} THEN SYMBOL_PAUSE ELSE 0

\* LOGGER.error calls of scanner_loop for one symbol: the handler (lines
\* 357-358) logs once for an exception out of the try body.
ErrorsLogged(result) ==
    IF result \in {"RuntimeError", "OtherException", "AlertException"}
         /\ Caught(result)
      THEN 1 ELSE 0

---------------------------------------------------------------------------
(* State. *)

\* No table was returned.
NoTable == [fetched |-> 0, first |-> 0, last |-> 0, complete |-> 0]

\* The table returned for a response of n rows.
Got(n, df) ==
    [fetched |-> n, first |-> df.first, last |-> df.last,
     complete |-> Complete(df)]

NoEvent ==
    [result |-> "none", ret |-> "NA", alert |-> FALSE, delivered |-> FALSE,
     errors |-> 0, memBefore |-> "NONE", alertBefore |-> "NONE",
     prevRet |-> "NA", waits |-> <<>>, calls |-> 0, table |-> NoTable]

\* No alert is being sent.
NoSending == [sig |-> "NA", got |-> NoTable, alertBefore |-> "NONE"]

NoWindow == [first |-> 0, last |-> 0, incomplete |-> 0, snap |-> "none"]

NoVerdict == [sig |-> "NA", long |-> FALSE, short |-> FALSE]

\* The scanner before main runs.
ScannerInit ==
    /\ pc = "start"
    /\ SHUTDOWN = FALSE
    /\ LAST_SIGNAL = [s \in SymbolSet |-> "NONE"]
    /\ sinceExec = 0
    /\ idx = 1
    /\ attempt = 0
    /\ mainSleep = 0
    /\ wdPc = "idle"
    /\ wdSleep = 0
    /\ stallReported = FALSE
    /\ attempted = <<>>
    /\ waits = <<>>
    /\ ev = NoEvent
    /\ prevRet = [s \in SymbolSet |-> "NA"]
    /\ runAlerts = [s \in SymbolSet |-> 0]
    /\ lastAlert = [s \in SymbolSet |-> "NONE"]
    /\ cycleBegunShut = FALSE
    /\ tgCalls = {}
    /\ httpCalls = 0
    /\ cycleErrors = 0
    /\ lastProbe = "none"
    /\ lastFetch = "none"
    /\ sending = NoSending

Init ==
    /\ ScannerInit
    /\ win = NoWindow
    /\ verdict = NoVerdict

signalVars == <<LAST_SIGNAL, lastAlert, tgCalls>>

runVars == <<ev, prevRet, runAlerts, cycleErrors>>

fetchVars == <<idx, attempt, httpCalls, waits, attempted, lastFetch>>

evalVars == <<win, verdict>>

watchdogVars == <<wdPc, wdSleep, stallReported>>

mainVars == <<pc, mainSleep, signalVars, runVars, fetchVars, cycleBegunShut,
              lastProbe, sending, evalVars>>

---------------------------------------------------------------------------
(* The signal handler. *)

\* handle_shutdown (lines 78-81), installed for SIGTERM and SIGINT.
handle_shutdown ==
    /\ pc # "exited"
    /\ ~SHUTDOWN
    /\ SHUTDOWN' = TRUE
    /\ UNCHANGED <<mainVars, watchdogVars, sinceExec>>

---------------------------------------------------------------------------
(* The main thread. *)

\* main, line 369: the watchdog thread is started.
main ==
    /\ pc = "start"
    /\ wdPc' = "check"
    /\ pc' = "startup"
    /\ UNCHANGED <<evalVars, sending, SHUTDOWN, sinceExec, mainSleep,
                   signalVars, runVars, fetchVars, wdSleep, stallReported,
                   cycleBegunShut, lastProbe>>

\* main, line 370: send_telegram is called with the startup message and calls
\* session.post (line 138), which blocks until Telegram answers or fails.
StartupPost ==
    /\ pc = "startup"
    /\ tgCalls' = tgCalls \cup {"startup"}
    /\ pc' = "startupPost"
    /\ UNCHANGED <<evalVars, sending, SHUTDOWN, sinceExec, mainSleep,
                   LAST_SIGNAL, lastAlert, runVars, fetchVars, watchdogVars,
                   cycleBegunShut, lastProbe>>

\* The post is over, send_telegram returns and main enters scanner_loop
\* (line 371).
StartupDone(tg) ==
    /\ pc = "startupPost"
    /\ pc' = IF send_telegram_raises(tg) THEN "crashed" ELSE "loop"
    /\ UNCHANGED <<evalVars, sending, SHUTDOWN, sinceExec, mainSleep,
                   signalVars, runVars, fetchVars, watchdogVars,
                   cycleBegunShut, lastProbe>>

\* The `while not SHUTDOWN` test of scanner_loop (line 330).
LoopTest ==
    /\ pc = "loop"
    /\ IF LoopCond(SHUTDOWN)
         THEN /\ pc' = "probe"
              /\ cycleBegunShut' = SHUTDOWN
         ELSE /\ pc' = "returned"
              /\ UNCHANGED cycleBegunShut
    /\ UNCHANGED <<evalVars, sending, SHUTDOWN, sinceExec, mainSleep,
                   signalVars, runVars, fetchVars, watchdogVars, lastProbe>>

\* `if not internet_ok(): time.sleep(30); continue` (lines 332-334), else the
\* for loop over SYMBOLS begins with its first symbol.
Probe(outcome) ==
    /\ pc = "probe"
    /\ lastProbe' = outcome
    /\ pc' = AfterProbe(internet_ok(outcome))
    /\ idx' = IF pc' = "fetch" THEN 1 ELSE idx
    /\ mainSleep' = IF pc' = "cooldown" THEN PROBE_COOLDOWN ELSE 0
    /\ sinceExec' = ElapsedAfterProbe(internet_ok(outcome), sinceExec)
    /\ UNCHANGED <<evalVars, sending, SHUTDOWN, signalVars, runVars, attempt,
                   httpCalls, waits, attempted, lastFetch, watchdogVars,
                   cycleBegunShut>>

\* The end of time.sleep(30) after a failed probe; `continue` goes to the test.
CooldownOver ==
    /\ pc = "cooldown"
    /\ mainSleep' = 0
    /\ pc' = "loop"
    /\ lastProbe' = "none"
    /\ UNCHANGED <<evalVars, sending, SHUTDOWN, sinceExec, signalVars,
                   runVars, fetchVars, watchdogVars, cycleBegunShut>>

\* The end of the processing of SYMBOLS[idx], whichever way the try statement
\* was left: a `continue`, or the handler if an exception was raised and then
\* time.sleep(0.1) (line 360).  ret is what check_signal returned ("NA" when it was not
\* called).  An exception that is not caught ends scanner_loop.
Finish(result, ret, alert, delivered, slept, calls, got) ==
    LET s == SYMBOLS[idx] IN
    /\ pc' = IF Caught(result) THEN "pause" ELSE "crashed"
    /\ mainSleep' = IF Caught(result) THEN PauseAfter(result, alert) ELSE 0
    /\ ev' = [result |-> result, ret |-> ret, alert |-> alert,
              delivered |-> delivered, errors |-> ErrorsLogged(result),
              memBefore |-> LAST_SIGNAL[s],
              alertBefore |-> IF sending = NoSending THEN lastAlert[s]
                                                     ELSE sending.alertBefore,
              prevRet |-> prevRet[s], waits |-> slept, calls |-> calls,
              table |-> got]
    /\ cycleErrors' = cycleErrors + ErrorsLogged(result)
    /\ prevRet' = [prevRet EXCEPT ![s] = ret]
    /\ runAlerts' = [runAlerts EXCEPT ![s] =
          IF ret \in Sides
            THEN Min(RunAlertsCap,
                     (IF prevRet[s] = ret THEN runAlerts[s] ELSE 0)
                       + (IF alert THEN 1 ELSE 0))
            ELSE 0]

\* The symbols whose processing has begun, once SYMBOLS[idx] is being fetched.
Started == IF attempt = 0 THEN Append(attempted, SYMBOLS[idx]) ELSE attempted

\* One attempt of fetch_klines that raises a RequestException (lines 182-185):
\* a warning is logged and the thread sleeps 2 * (attempt + 1) seconds.
FetchRetry(outcome) ==
    /\ pc = "fetch"
    /\ outcome # "ok"
    /\ Retryable(outcome)
    /\ attempted' = Started
    /\ httpCalls' = httpCalls + 1
    /\ lastFetch' = outcome
    /\ waits' = Append(waits, Backoff(attempt))
    /\ mainSleep' = Backoff(attempt)
    /\ pc' = "backoff"
    /\ UNCHANGED <<evalVars, sending, SHUTDOWN, sinceExec, signalVars,
                   runVars, idx, attempt, watchdogVars, cycleBegunShut,
                   lastProbe>>

\* The end of that sleep: the next attempt, or, the range being exhausted,
\* `raise RuntimeError` (line 187), caught by scanner_loop (lines 357-358).
BackoffOver ==
    /\ pc = "backoff"
    /\ attempt' = attempt + 1
    /\ IF MoreAttempts(attempt + 1)
         THEN /\ pc' = "fetch"
              /\ mainSleep' = 0
              /\ UNCHANGED runVars
         ELSE Finish("RuntimeError", "NA", FALSE, FALSE, waits, httpCalls,
                     NoTable)
    /\ UNCHANGED <<evalVars, sending, SHUTDOWN, sinceExec, signalVars, idx,
                   httpCalls, waits, attempted, lastFetch, watchdogVars,
                   cycleBegunShut, lastProbe>>

\* One attempt of fetch_klines that raises another exception: it is not
\* caught in fetch_klines and reaches `except Exception` of scanner_loop.
FetchRaise(outcome) ==
    /\ pc = "fetch"
    /\ outcome # "ok"
    /\ ~Retryable(outcome)
    /\ attempted' = Started
    /\ httpCalls' = httpCalls + 1
    /\ lastFetch' = outcome
    /\ Finish("OtherException", "NA", FALSE, FALSE, waits, httpCalls + 1,
              NoTable)
    /\ UNCHANGED <<evalVars, sending, SHUTDOWN, sinceExec, signalVars, idx,
                   attempt, waits, watchdogVars, cycleBegunShut, lastProbe>>

\* One attempt of fetch_klines that returns the table, and the try body of
\* scanner_loop (lines 340-352) up to the end of the symbol or, for a new
\* side, up to send_alert, whose session.post (line 138) is then in flight.
FetchOk(n, inc, snap) ==
    LET s    == SYMBOLS[idx]
        df   == Table(n, inc, snap)
        sig  == check_signal(df)
        last == LAST_SIGNAL[s]
        got  == Got(n, df)
    IN
    /\ pc = "fetch"
    /\ attempted' = Started
    /\ httpCalls' = httpCalls + 1
    /\ lastFetch' = "ok"
    /\ IF df_empty(df)
         THEN /\ Finish("empty", "NA", FALSE, FALSE, waits, httpCalls + 1, got)
              /\ UNCHANGED signalVars
         ELSE IF sig = "NONE"
         THEN /\ Finish("df", sig, FALSE, FALSE, waits, httpCalls + 1, got)
              /\ LAST_SIGNAL' =
                    [LAST_SIGNAL EXCEPT ![s] = MemoryAfterNoSignal(last)]
              /\ UNCHANGED <<lastAlert, tgCalls>>
         ELSE IF ~IsNewSignal(last, sig)
         THEN /\ Finish("df", sig, FALSE, FALSE, waits, httpCalls + 1, got)
              /\ UNCHANGED signalVars
         ELSE /\ tgCalls' = tgCalls \cup {"alert"}
              /\ lastAlert' = [lastAlert EXCEPT ![s] = sig]
              /\ pc' = "alert"
              /\ UNCHANGED <<LAST_SIGNAL, mainSleep, runVars>>
    /\ sending' = IF ~df_empty(df) /\ sig # "NONE" /\ IsNewSignal(last, sig)
                    THEN [sig |-> sig, got |-> got,
                          alertBefore |-> lastAlert[s]]
                    ELSE sending
    /\ UNCHANGED <<evalVars, SHUTDOWN, sinceExec, idx, attempt, waits,
                   watchdogVars, cycleBegunShut, lastProbe>>

\* The post of the alert is over: send_alert returns, LAST_SIGNAL[symbol] =
\* sig (line 354), time.sleep(0.1) begins.
AlertDone(tg) ==
    LET s    == SYMBOLS[idx]
        sig  == sending.sig
        last == LAST_SIGNAL[s]
    IN
    /\ pc = "alert"
    /\ sending' = NoSending
    /\ IF send_telegram_raises(tg)
         THEN /\ Finish("AlertException", sig, TRUE, FALSE, waits, httpCalls,
                        sending.got)
              /\ UNCHANGED LAST_SIGNAL
         ELSE /\ Finish("df", sig, TRUE, send_telegram(tg), waits, httpCalls,
                        sending.got)
              /\ LAST_SIGNAL' =
                    [LAST_SIGNAL EXCEPT ![s] = MemoryAfterAlert(last, sig)]
    /\ UNCHANGED <<evalVars, SHUTDOWN, sinceExec, lastAlert, tgCalls,
                   fetchVars, watchdogVars, cycleBegunShut, lastProbe>>

\* The end of time.sleep(0.1), if it was entered: the next symbol, or, after
\* the last one, LAST_EXECUTION = time.time() and time.sleep(30) (lines
\* 362-363).
PauseOver ==
    /\ pc = "pause"
    /\ ev' = NoEvent
    /\ attempt' = 0
    /\ httpCalls' = 0
    /\ waits' = <<>>
    /\ lastFetch' = "none"
    /\ IF idx < Len(SYMBOLS)
         THEN /\ idx' = idx + 1
              /\ pc' = "fetch"
              /\ mainSleep' = 0
              /\ UNCHANGED sinceExec
         ELSE /\ sinceExec' = 0
              /\ mainSleep' = CYCLE_SLEEP
              /\ pc' = "interval"
              /\ UNCHANGED idx
    /\ UNCHANGED <<evalVars, sending, SHUTDOWN, signalVars, prevRet,
                   runAlerts, cycleErrors, attempted, watchdogVars,
                   cycleBegunShut, lastProbe>>

\* The end of the time.sleep(30) that closes a cycle.
IntervalOver ==
    /\ pc = "interval"
    /\ mainSleep' = 0
    /\ pc' = "loop"
    /\ lastProbe' = "none"
    /\ cycleErrors' = 0
    /\ attempted' = <<>>
    /\ UNCHANGED <<evalVars, sending, SHUTDOWN, sinceExec, signalVars, ev,
                   prevRet, runAlerts, idx, attempt, httpCalls, waits,
                   lastFetch, watchdogVars, cycleBegunShut>>

\* scanner_loop has returned: main returns (line 371) and the process ends,
\* the daemon thread with it.
MainExit ==
    /\ pc = "returned"
    /\ pc' = "exited"
    /\ UNCHANGED <<evalVars, sending, SHUTDOWN, sinceExec, mainSleep,
                   signalVars, runVars, fetchVars, watchdogVars,
                   cycleBegunShut, lastProbe>>

---------------------------------------------------------------------------
(* The watchdog thread (lines 313-318). *)

\* One pass of `while not SHUTDOWN`: the check, then time.sleep(60) begins.
WatchdogCheck ==
    /\ wdPc = "check"
    /\ pc # "exited"
    /\ IF ~SHUTDOWN
         THEN /\ stallReported' = Stalled(sinceExec)
              /\ wdSleep' = WATCHDOG_PERIOD
              /\ wdPc' = "sleep"
         ELSE /\ wdPc' = "done"
              /\ UNCHANGED <<stallReported, wdSleep>>
    /\ UNCHANGED <<mainVars, SHUTDOWN, sinceExec>>

\* The end of time.sleep(60).
WatchdogWake ==
    /\ wdPc = "sleep"
    /\ pc # "exited"
    /\ wdSleep' = 0
    /\ wdPc' = "check"
    /\ UNCHANGED <<mainVars, SHUTDOWN, sinceExec, stallReported>>

---------------------------------------------------------------------------
(* Time. *)

\* The clock advances by one quantum.
Tick ==
    /\ pc # "exited"
    /\ sinceExec' = Min(MaxElapsed, sinceExec + TickStep)
    /\ UNCHANGED <<mainVars, SHUTDOWN, watchdogVars>>

---------------------------------------------------------------------------
(* The program. *)

MainStep ==
    \/ main
    \/ StartupPost
    \/ \E tg \in TelegramOutcomes : StartupDone(tg)
    \/ LoopTest
    \/ \E o \in ProbeOutcomes : Probe(o)
    \/ CooldownOver
    \/ \E o \in FetchOutcomes : FetchRetry(o)
    \/ BackoffOver
    \/ \E o \in FetchOutcomes : FetchRaise(o)
    \/ \E n \in RowCounts :
          \E inc \in Incomplete(n), snap \in Snapshots : FetchOk(n, inc, snap)
    \/ \E tg \in TelegramOutcomes : AlertDone(tg)
    \/ PauseOver
    \/ IntervalOver
    \/ MainExit

WatchdogStep == WatchdogCheck \/ WatchdogWake

Next == MainStep \/ WatchdogStep \/ handle_shutdown \/ Tick

Spec == Init /\ [][Next]_vars

\* Every blocking call of the main thread has a timeout and every sleep ends,
\* so the main thread always takes its next step.
FairSpec == Spec /\ WF_vars(MainStep)

---------------------------------------------------------------------------
(* check_signal as a function of the table it is given. *)

\* A table of 49 or 50 complete rows ending in any snapshot of Windows.
SignalInit ==
    /\ ScannerInit
    /\ win \in {Table(n, 0, w) : n \in {MIN_ROWS, MIN_ROWS + 1}, w \in Windows}
    /\ verdict = NoVerdict

\* check_signal(win), with the two composite conditions it evaluated.
Evaluate ==
    /\ verdict = NoVerdict
    /\ verdict' = [sig |-> check_signal(win),
                   long |-> LongCond(Readings(win.snap)),
                   short |-> ShortCond(Readings(win.snap))]
    /\ UNCHANGED <<pc, mainSleep, signalVars, runVars, fetchVars,
                   cycleBegunShut, lastProbe, sending, win, SHUTDOWN,
                   sinceExec, watchdogVars>>

SignalNext == Evaluate

SignalSpec == SignalInit /\ [][SignalNext]_vars

---------------------------------------------------------------------------
(* Properties. *)

\* The symbol being processed, or just processed.
CurSym == SYMBOLS[idx]

\* The main thread is inside `for symbol in SYMBOLS`.
InCycle == pc \in {"fetch", "backoff", "alert", "pause"}

\* The processing of CurSym has just ended and ev describes it.
Processed == pc = "pause"

\* C1, as amended: an alert is never sent with the side of the previously
\* sent alert of its symbol; while check_signal returns the same side S on
\* consecutive cycles, at most one alert is sent, and only on the first of
\* those cycles: it is sent there exactly when the previously sent alert of
\* the symbol was not of side S.
C1_AlertOnlyOnNewSide ==
    Processed /\ ev.ret \in Sides =>
        /\ ev.alert => ev.alertBefore # ev.ret
        /\ ev.alert => ev.prevRet # ev.ret
        /\ runAlerts[CurSym] <= 1
        /\ ev.prevRet # ev.ret => (ev.alert <=> ev.alertBefore # ev.ret)

\* C1, as claimed: no alert repeats the side of the previous one, and a run
\* of consecutive cycles returning the same side has sent exactly one alert,
\* on its first cycle.
C1_ExactlyOnePerRun ==
    Processed /\ ev.ret \in Sides =>
        /\ ev.alert => ev.alertBefore # ev.ret
        /\ ev.alert => ev.prevRet # ev.ret
        /\ runAlerts[CurSym] = 1

\* The second cycle of a run of equal sides, its alert suppressed.
C1_Witness ==
    /\ Processed
    /\ ev.ret \in Sides
    /\ ev.prevRet = ev.ret
    /\ ~ev.alert
    /\ runAlerts[CurSym] = 1

\* C2, as amended: a cycle in which check_signal returns None leaves the
\* alert memory of the symbol as it was, so the next cycle returning S sends
\* an alert only if the memory holds another side or nothing: S, None, S
\* yields one alert.
C2_NoSignalKeepsMemory ==
    Processed =>
        /\ ev.ret = "NONE" => LAST_SIGNAL[CurSym] = ev.memBefore /\ ~ev.alert
        /\ ev.ret \in Sides /\ ev.prevRet = "NONE" =>
              (ev.alert <=> ev.memBefore # ev.ret)

\* C2, as claimed: a cycle returning None clears the memory, and the next
\* cycle returning a side sends an alert.
C2_NoSignalClearsMemory ==
    Processed =>
        /\ ev.ret = "NONE" => LAST_SIGNAL[CurSym] = "NONE"
        /\ ev.ret \in Sides /\ ev.prevRet = "NONE" => ev.alert

\* S, None, S: the third cycle sends nothing.
C2_Witness ==
    /\ Processed
    /\ ev.prevRet = "NONE"
    /\ ev.ret \in Sides
    /\ ev.memBefore = ev.ret
    /\ ~ev.alert

\* C3: a call of fetch_klines makes at most HTTP_RETRIES HTTP attempts; a
\* call whose attempt k+1 returns after k < HTTP_RETRIES transient failures
\* hands its table to scanner_loop with no error logged there, and a
\* transient failure surfaces only when all HTTP_RETRIES attempts failed.
C3_BoundedRetry ==
    /\ httpCalls <= HTTP_RETRIES
    /\ ev.calls <= HTTP_RETRIES
    /\ ev.result \in {"df", "empty"} =>
          /\ Processed
          /\ ev.errors = 0
          /\ Len(ev.waits) < HTTP_RETRIES
          /\ ev.calls = Len(ev.waits) + 1
    /\ ev.result = "RuntimeError" => Len(ev.waits) = HTTP_RETRIES

\* Two transient failures, then the table.
C3_Witness ==
    /\ Processed
    /\ ev.result = "df"
    /\ Len(ev.waits) = 2
    /\ ev.calls = 3
    /\ ev.errors = 0

\* C4: when all HTTP_RETRIES attempts fail, scanner_loop logs exactly one
\* error for the symbol, sends no alert, leaves LAST_SIGNAL as it was, and
\* goes on to the next symbol of the cycle (to the end of the cycle after the
\* last symbol).
C4_ExhaustedFetchSkipsSymbol ==
    /\ [](ev.result = "RuntimeError" =>
            /\ Processed
            /\ ev.calls = HTTP_RETRIES
            /\ ev.errors = 1
            /\ ~ev.alert
            /\ LAST_SIGNAL[CurSym] = ev.memBefore
            /\ lastAlert[CurSym] = ev.alertBefore)
    /\ [][ev.result = "RuntimeError" /\ pc' # pc =>
            /\ LAST_SIGNAL' = LAST_SIGNAL
            /\ tgCalls' = tgCalls
            /\ (IF idx < Len(SYMBOLS)
                  THEN pc' = "fetch" /\ idx' = idx + 1
                  ELSE pc' = "interval")]_vars

\* All three attempts for the first symbol, whose memory holds a side, raised
\* a RequestException: fetch_klines raised RuntimeError after three calls and
\* three waits, one error was logged, no alert was sent, the memory is as it
\* was, and the second symbol is still to come.
C4_Witness ==
    /\ Processed
    /\ idx = 1
    /\ idx < Len(SYMBOLS)
    /\ ev.result = "RuntimeError"
    /\ lastFetch = "RequestException"
    /\ ev.calls = HTTP_RETRIES
    /\ Len(ev.waits) = HTTP_RETRIES
    /\ ev.errors = 1
    /\ ~ev.alert
    /\ ev.memBefore \in Sides
    /\ LAST_SIGNAL[CurSym] = ev.memBefore

\* C5: in a cycle whose probe succeeded the symbols are attempted one by one
\* in list order, each once, and the cycle ends only after the last one,
\* whatever was raised on the way.
C5_EverySymbolAttempted ==
    /\ [](/\ pc = "fetch" /\ attempt = 0 =>
                attempted = SubSeq(SYMBOLS, 1, idx - 1)
          /\ (pc = "fetch" /\ attempt > 0)
               \/ pc \in {"backoff", "alert", "pause"} =>
                attempted = SubSeq(SYMBOLS, 1, idx)
          /\ pc = "interval" => attempted = SYMBOLS)
    /\ [][InCycle /\ pc' # pc =>
            pc' \in {"fetch", "backoff", "alert", "pause", "interval"}]_vars

\* A cycle in which every symbol raised has attempted them all.
C5_Witness ==
    /\ pc = "interval"
    /\ attempted = SYMBOLS
    /\ cycleErrors = Len(SYMBOLS)

\* C6: scanner_loop is left only with SHUTDOWN set.
C6_ReturnsOnlyOnShutdown ==
    pc \in {"returned", "exited", "crashed"} => SHUTDOWN

\* A symbol has raised and the delivery of an alert has failed in this cycle:
\* the loop is still running, SHUTDOWN being false.
C6_Witness ==
    /\ pc = "pause"
    /\ ~SHUTDOWN
    /\ cycleErrors >= 1
    /\ ev.alert
    /\ ~ev.delivered

\* C7: once SHUTDOWN is set scanner_loop eventually returns; the iteration in
\* progress runs to its end and the next `while` test leaves the loop, so no
\* cycle begins with the flag set.
C7_ShutdownEndsLoop ==
    /\ SHUTDOWN ~> pc \in {"returned", "exited"}
    /\ [](~cycleBegunShut)
    /\ [][SHUTDOWN /\ pc' # pc =>
            /\ pc = "loop" => pc' = "returned"
            /\ InCycle =>
                  pc' \in {"fetch", "backoff", "alert", "pause", "interval"}
            /\ pc \in {"cooldown", "interval"} => pc' = "loop"]_vars

\* The flag is set and the cycle in progress is fetching its last symbol.
C7_Witness ==
    /\ SHUTDOWN
    /\ pc = "fetch"
    /\ idx = Len(SYMBOLS)
    /\ ~cycleBegunShut

\* C8, as claimed: the process does not end before a shutdown notification
\* was handed to the notifier.
C8_ShutdownNotified ==
    pc = "exited" => "shutdown" \in tgCalls

\* C9: a watchdog check reports a stall exactly when more than 600 s have
\* passed since LAST_EXECUTION, is followed by a sleep of 60 s, happens only
\* while SHUTDOWN is false, and no step of the watchdog changes the main
\* thread, SHUTDOWN, LAST_SIGNAL or LAST_EXECUTION.
C9_WatchdogOnlyReports ==
    [][wdPc' # wdPc /\ wdPc # "idle" =>
         /\ UNCHANGED <<mainVars, SHUTDOWN, sinceExec>>
         /\ wdPc' = "sleep" =>
               /\ ~SHUTDOWN
               /\ stallReported' = (sinceExec > STALL_THRESHOLD)
               /\ wdSleep' = WATCHDOG_PERIOD
         /\ wdPc = "check" /\ ~SHUTDOWN => wdPc' = "sleep"]_vars

\* A stall was reported and the main loop goes on.
C9_Witness ==
    /\ stallReported
    /\ wdPc = "sleep"
    /\ sinceExec > STALL_THRESHOLD
    /\ ~SHUTDOWN
    /\ pc = "fetch"

\* C10: an iteration whose probe failed fetches no symbol, sends no alert and
\* leaves LAST_SIGNAL as it was; it sleeps the cooldown and goes back to the
\* `while` test, which, SHUTDOWN being false, probes again before any fetch.
C10_FailedProbeSkipsCycle ==
    /\ [](pc = "cooldown" =>
            /\ lastProbe \in {"statusOther", "exception"}
            /\ mainSleep = PROBE_COOLDOWN
            /\ attempted = <<>>
            /\ httpCalls = 0)
    /\ [](InCycle => lastProbe = "status200")
    /\ [][pc' # pc /\ pc' # "fetch" /\ pc \in {"probe", "cooldown"} =>
            /\ UNCHANGED <<LAST_SIGNAL, lastAlert, tgCalls, httpCalls, attempted>>
            /\ pc' = (IF pc = "probe" THEN "cooldown" ELSE "loop")]_vars
    /\ [][pc = "loop" /\ ~SHUTDOWN /\ pc' # pc => pc' = "probe"]_vars

\* The probe has failed with an alert memory already set: the loop cools down.
C10_Witness ==
    /\ pc = "cooldown"
    /\ lastProbe = "statusOther"
    /\ LAST_SIGNAL[SYMBOLS[1]] \in Sides
    /\ ~SHUTDOWN

\* C11: send_telegram raises nothing, whatever the delivery does: neither the
\* startup message nor an alert ends main or reaches the per-symbol handler,
\* and after an alert LAST_SIGNAL holds the alerted side whether the message
\* was delivered or not.
C11_NotifierNeverRaises ==
    /\ pc # "crashed"
    /\ ev.result # "AlertException"
    /\ Processed /\ ev.alert =>
          /\ ev.result = "df"
          /\ ev.errors = 0
          /\ LAST_SIGNAL[CurSym] = ev.ret

\* The side has flipped, the alert was not delivered, the memory holds the
\* new side.
C11_Witness ==
    /\ Processed
    /\ ev.alert
    /\ ~ev.delivered
    /\ ev.memBefore \in Sides
    /\ LAST_SIGNAL[CurSym] = ev.ret
    /\ ev.ret # ev.memBefore

\* C12, as claimed: every table fetch_klines returns has at least one row, so
\* a response that is empty of candles ends in an error logged for the symbol.
C12_EmptyResponseIsError ==
    Processed /\ ev.result \in {"df", "empty"} =>
        ev.table.last >= ev.table.first

\* C13: check_signal returns no signal on a table of fewer than MIN_ROWS
\* complete rows, whatever its indicators show; no alert is sent and the
\* alert memory of the symbol stays as it was.
C13_ShortWindowNoSignal ==
    Processed /\ ev.result = "df" /\ ev.table.complete < MIN_ROWS =>
        /\ ev.ret = "NONE"
        /\ ~ev.alert
        /\ LAST_SIGNAL[CurSym] = ev.memBefore
        /\ lastAlert[CurSym] = ev.alertBefore

\* 50 rows were returned, one with a missing value: 49 complete rows, no
\* signal, and the memory keeps the side it held.
C13_Witness ==
    /\ Processed
    /\ ev.result = "df"
    /\ ev.table.last = MIN_ROWS
    /\ ev.table.complete = MIN_ROWS - 1
    /\ ev.ret = "NONE"
    /\ ev.memBefore \in Sides
    /\ LAST_SIGNAL[CurSym] = ev.memBefore

\* C14: the table check_signal receives is the response without its last
\* row: rows 1 .. n-1 of a response of n rows; a returned table that is not
\* handed to check_signal comes from a response of at most one row.
C14_LastCandleDropped ==
    /\ Processed /\ ev.result = "df" =>
          /\ ev.ret # "NA"
          /\ ev.table.first = 1
          /\ ev.table.last = ev.table.fetched - 1
    /\ Processed /\ ev.result = "empty" =>
          /\ ev.ret = "NA"
          /\ ev.table.fetched <= 1

\* A response of 51 rows gave check_signal rows 1 .. 50, and a side came out.
C14_Witness ==
    /\ Processed
    /\ ev.result = "df"
    /\ ev.table.fetched = MIN_ROWS + 1
    /\ ev.table.first = 1
    /\ ev.table.last = MIN_ROWS
    /\ ev.ret \in Sides

\* C15: check_signal returns LONG only when the cross up, the alignment, the
\* slopes, the separation and the breakout above the previous high all hold,
\* SHORT only when their mirror images hold; when all but the breakout hold,
\* it returns no signal.
C15_CompositeRule ==
    LET w        == win.snap
        s3(k)    == RollingSum(w, 3, k)
        s8(k)    == RollingSum(w, 8, k)
        s20      == RollingSum(w, 20, 1)
        price    == w.closes[BARS]
        d        == Abs(8 * s3(1) - 3 * s8(1)) * SLOPE_INV
        up       == (s3(1) - s3(2)) * SLOPE_INV
        sep      == d > 24 * price \/ (d = 24 * price /\ w.sep_tie)
        othersUp == /\ \/ 8 * s3(3) < 3 * s8(3) /\ 8 * s3(2) > 3 * s8(2)
                       \/ 8 * s3(2) < 3 * s8(2) /\ 8 * s3(1) > 3 * s8(1)
                    /\ 8 * s3(1) > 3 * s8(1) /\ 20 * s8(1) > 8 * s20
                    /\ up > 3 * price \/ (up = 3 * price /\ w.slope_tie)
                    /\ s8(1) > s8(2)
                    /\ sep
        othersDn == /\ \/ 8 * s3(3) > 3 * s8(3) /\ 8 * s3(2) < 3 * s8(2)
                       \/ 8 * s3(2) > 3 * s8(2) /\ 8 * s3(1) < 3 * s8(1)
                    /\ 8 * s3(1) < 3 * s8(1) /\ 20 * s8(1) < 8 * s20
                    /\ -up > 3 * price \/ (-up = 3 * price /\ w.slope_tie)
                    /\ s8(1) < s8(2)
                    /\ sep
    IN
    verdict # NoVerdict =>
        /\ verdict.sig = "LONG" => othersUp /\ price > w.high2
        /\ verdict.sig = "SHORT" => othersDn /\ price < w.low2
        /\ othersUp /\ ~(price > w.high2) => verdict.sig = "NONE"
        /\ othersDn /\ ~(price < w.low2) => verdict.sig = "NONE"

\* Enough rows, open gates, every long condition but the breakout: no signal.
C15_Witness ==
    /\ verdict # NoVerdict
    /\ win.snap = NoBreakoutSnap
    /\ Complete(win) >= MIN_ROWS
    /\ cruzou_long(Readings(win.snap))
    /\ inclinacao_long(Readings(win.snap))
    /\ verdict.sig = "NONE"

\* C16: the LONG and the SHORT condition never both hold on one snapshot.
C16_SidesExclusive ==
    ~(verdict.long /\ verdict.short)

\* The short condition holds, the long one does not, SHORT is returned.
C16_Witness ==
    /\ verdict.short
    /\ ~verdict.long
    /\ verdict.sig = "SHORT"
    /\ win.snap = ShortSnap

\* C17, as claimed: the n-th wait of a call is 2n seconds, and every wait is
\* followed by another attempt.
C17_WaitOnlyBeforeRetry ==
    /\ \A k \in 1..Len(waits) : waits[k] = BACKOFF_UNIT * k
    /\ pc = "backoff" => MoreAttempts(attempt + 1)

\* C18: time.time() - LAST_EXECUTION falls only by the assignment that ends a
\* cycle, made by the main thread after the last symbol was processed; that
\* assignment is made at the end of every cycle; no step of the watchdog and
\* no iteration whose probe failed makes it.
C18_StampOnlyAfterCycle ==
    /\ [][sinceExec' < sinceExec =>
            /\ pc = "pause"
            /\ idx = Len(SYMBOLS)
            /\ attempted = SYMBOLS
            /\ pc' = "interval"
            /\ sinceExec' = 0
            /\ UNCHANGED watchdogVars]_vars
    /\ [][pc' = "interval" /\ pc # "interval" => sinceExec' = 0]_vars
    /\ [][wdPc' # wdPc \/ (pc' # pc /\ pc' \in {"cooldown", "loop", "probe"}) =>
            sinceExec' = sinceExec]_vars

\* The watchdog had reported a stall; the cycle, one symbol of which raised,
\* has now ended and set LAST_EXECUTION.
C18_Witness ==
    /\ pc = "interval"
    /\ sinceExec = 0
    /\ stallReported
    /\ cycleErrors >= 1
    /\ attempted = SYMBOLS

\* C19: the entry of a symbol in LAST_SIGNAL is absent while no alert was
\* dispatched for it and is the side of its most recent alert afterwards,
\* the assignment being made when send_alert returns: while the post of an
\* alert is in flight the entry is still what it was before that alert.  The
\* entry changes only in the step that ends the sending of an alert for that
\* symbol, to the side alerted, so an entry is never removed.
C19_MemoryIsLastAlert ==
    /\ [](\A s \in SymbolSet :
            \/ LAST_SIGNAL[s] = lastAlert[s]
            \/ /\ pc = "alert"
               /\ s = CurSym
               /\ LAST_SIGNAL[s] = sending.alertBefore)
    /\ [][pc' # pc /\ pc = "alert" =>
            /\ pc' = "pause"
            /\ LAST_SIGNAL'[CurSym] = lastAlert[CurSym]]_vars
    /\ [][(\A s \in SymbolSet :
             LAST_SIGNAL'[s] # LAST_SIGNAL[s] =>
                /\ s = CurSym
                /\ pc = "alert"
                /\ pc' = "pause"
                /\ ev'.alert
                /\ LAST_SIGNAL'[s] \in Sides
                /\ LAST_SIGNAL'[s] = ev'.ret
                /\ "alert" \in tgCalls)]_vars

\* The first symbol was alerted SHORT and has since returned no signal; the
\* second was never alerted.
C19_Witness ==
    /\ pc = "interval"
    /\ LAST_SIGNAL[SYMBOLS[1]] = "SHORT"
    /\ lastAlert[SYMBOLS[1]] = "SHORT"
    /\ prevRet[SYMBOLS[1]] = "NONE"
    /\ LAST_SIGNAL[SYMBOLS[2]] = "NONE"

\* C20: fetch_klines sleeps and retries only after a RequestException; an
\* attempt that raises anything else is the last of the call (one more call
\* than waits), no wait follows it, and scanner_loop logs one error, sends no
\* alert, leaves LAST_SIGNAL as it was and pauses before the next symbol.
C20_OnlyRequestExceptionRetried ==
    /\ pc = "backoff" => lastFetch = "RequestException"
    /\ lastFetch = "OtherException" =>
          /\ Processed
          /\ mainSleep = SYMBOL_PAUSE
          /\ ev.result = "OtherException"
          /\ ev.calls = Len(ev.waits) + 1
          /\ ev.errors = 1
          /\ ~ev.alert
          /\ LAST_SIGNAL[CurSym] = ev.memBefore

\* The first attempt for the second symbol raised while the table was built.
C20_Witness ==
    /\ Processed
    /\ idx = 2
    /\ lastFetch = "OtherException"
    /\ ev.calls = 1
    /\ ev.waits = <<>>
    /\ ev.errors = 1

====
